---- MODULE Spec2Model ----
(***************************************************************************)
(* A model of the speech diagnostic tool's analysis engine                 *)
(* (src/streamlit_app.py): the character-level alignment of two IPA        *)
(* transcriptions, the clinical pattern classifier, the confidence scorer  *)
(* and the Run Analysis handler that stores the assembled result.          *)
(*                                                                         *)
(* A phonetic string is a sequence of one-symbol strings.  The lexer takes *)
(* ASCII only, so the IPA symbols outside ASCII are written by name:       *)
(*   "turned_r" U+0279, "theta" U+03B8, "eth" U+00F0, "esh" U+0283,        *)
(*   "ezh" U+0292, "eng" U+014B, "ae" U+00E6.                              *)
(* Python indexes from 0 and TLA+ from 1: the slice s[i:j] of the source   *)
(* is SubSeq(s, i+1, j), and every index kept in the state (position, the  *)
(* matching blocks) is the source's 0-based index.                         *)
(*                                                                         *)
(* A similarity is the float 2.0*matches/length of difflib's ratio(); it   *)
(* is kept as the exact fraction [num, den] and compared by cross          *)
(* multiplication.                                                         *)
(***************************************************************************)
EXTENDS Naturals, Integers, Sequences, FiniteSets, TLC

VARIABLES
    pc,                  \* the position of the call or handler under way
    produced_ipa,        \* argument of compare_ipa_transcriptions
    expected_ipa,        \* argument of compare_ipa_transcriptions
    differences,         \* the list of differences (result of compare, argument of identify)
    similarity,          \* the similarity score
    speech_rules,        \* the rule table: a sequence of rows
    identified_patterns, \* the list returned by identify_patterns
    config,              \* the sensitivity thresholds
    confidence,          \* <<label, tier>> returned by calculate_confidence_level
    uploaded_file,       \* whether the file uploader holds a recording
    analysis_complete,   \* st.session_state.analysis_complete
    analysis_results     \* st.session_state.analysis_results

vars == <<pc, produced_ipa, expected_ipa, differences, similarity, speech_rules,
          identified_patterns, config, confidence, uploaded_file, analysis_complete,
          analysis_results>>

(***************************************************************************)
(* Bounds of the model.                                                    *)
(***************************************************************************)
MaxLen == 3
MaxDiffs == 3
MaxMissing == 1
MaxDen == 20

\* The symbols the alignment is exercised on; "/" is the IPA delimiter.
AlignSymbols == {"k", "ae", "t", "/"}

RECURSIVE SeqsUpTo(_, _)
SeqsUpTo(S, n) ==
    IF n = 0 THEN {<<>>}
    ELSE LET shorter == SeqsUpTo(S, n - 1)
         IN  shorter \cup {Append(s, x) : s \in {t \in shorter : Len(t) = n - 1}, x \in S}

IPAStrings == SeqsUpTo(AlignSymbols, MaxLen)

\* Python's None, in the shape of the value it stands in for: a string that is
\* no phonetic string, a score that is no fraction, an empty pair, and an empty
\* slot (a stored result record r is kept as <<r>>).
NoneString == <<"None">>
NoScore == [num |-> 0, den |-> 0]
NoConfidence == <<>>
NoResults == <<>>

(***************************************************************************)
(* str.strip('/'): every leading and every trailing "/" is removed.        *)
(***************************************************************************)
RECURSIVE lstrip(_)
lstrip(s) ==
    IF s # <<>> /\ Head(s) = "/" THEN lstrip(Tail(s)) ELSE s

RECURSIVE rstrip(_)
rstrip(s) ==
    IF s # <<>> /\ s[Len(s)] = "/" THEN rstrip(SubSeq(s, 1, Len(s) - 1)) ELSE s

strip(s) == rstrip(lstrip(s))

(***************************************************************************)
(* difflib.SequenceMatcher(None, a, b), as line 104 builds it: no junk,    *)
(* and the autojunk heuristic is idle below 200 symbols.                   *)
(***************************************************************************)

\* The length of the common run of a[i..] and b[j..] inside a[..ahi), b[..bhi)
\* (0-based i, j).
RECURSIVE RunLen(_, _, _, _, _, _)
RunLen(a, b, i, j, ahi, bhi) ==
    IF i < ahi /\ j < bhi /\ a[i + 1] = b[j + 1]
    THEN 1 + RunLen(a, b, i + 1, j + 1, ahi, bhi)
    ELSE 0

\* find_longest_match(alo, ahi, blo, bhi): the block <<i, j, k>> with
\* a[i:i+k] = b[j:j+k], k maximal, then i minimal, then j minimal;
\* <<alo, blo, 0>> when the ranges share no symbol.
find_longest_match(a, b, alo, ahi, blo, bhi) ==
    LET cand == {<<i, j>> \in (alo .. ahi - 1) \X (blo .. bhi - 1) : a[i + 1] = b[j + 1]}
        size(c) == RunLen(a, b, c[1], c[2], ahi, bhi)
    IN  IF cand = {} THEN <<alo, blo, 0>>
        ELSE LET best == CHOOSE c \in cand :
                            \A d \in cand :
                                \/ size(c) > size(d)
                                \/ /\ size(c) = size(d)
                                   /\ \/ c[1] < d[1]
                                      \/ c[1] = d[1] /\ c[2] <= d[2]
             IN  <<best[1], best[2], size(best)>>

\* The recursion of get_matching_blocks, in sorted order.
RECURSIVE MatchingBlocksIn(_, _, _, _, _, _)
MatchingBlocksIn(a, b, alo, ahi, blo, bhi) ==
    LET x == find_longest_match(a, b, alo, ahi, blo, bhi)
        i == x[1]
        j == x[2]
        k == x[3]
    IN  IF k = 0 THEN <<>>
        ELSE (IF alo < i /\ blo < j
              THEN MatchingBlocksIn(a, b, alo, i, blo, j) ELSE <<>>)
             \o <<x>>
             \o (IF i + k < ahi /\ j + k < bhi
                 THEN MatchingBlocksIn(a, b, i + k, ahi, j + k, bhi) ELSE <<>>)

\* The collapse of adjacent blocks: cur is the block being grown.
RECURSIVE Collapse(_, _)
Collapse(blocks, cur) ==
    IF blocks = <<>> THEN (IF cur[3] > 0 THEN <<cur>> ELSE <<>>)
    ELSE LET nxt == Head(blocks)
         IN  IF cur[1] + cur[3] = nxt[1] /\ cur[2] + cur[3] = nxt[2]
             THEN Collapse(Tail(blocks), <<cur[1], cur[2], cur[3] + nxt[3]>>)
             ELSE (IF cur[3] > 0 THEN <<cur>> ELSE <<>>) \o Collapse(Tail(blocks), nxt)

\* get_matching_blocks(): the collapsed blocks and the sentinel <<la, lb, 0>>.
get_matching_blocks(a, b) ==
    Append(Collapse(MatchingBlocksIn(a, b, 0, Len(a), 0, Len(b)), <<0, 0, 0>>),
           <<Len(a), Len(b), 0>>)

\* get_opcodes(): <<tag, i1, i2, j1, j2>>, (i, j) being the end of the last block.
RECURSIVE OpcodesFrom(_, _, _)
OpcodesFrom(blocks, i, j) ==
    IF blocks = <<>> THEN <<>>
    ELSE LET ai   == Head(blocks)[1]
             bj   == Head(blocks)[2]
             size == Head(blocks)[3]
             tag  == IF i < ai /\ j < bj THEN "replace"
                     ELSE IF i < ai THEN "delete"
                     ELSE IF j < bj THEN "insert"
                     ELSE ""
         IN  (IF tag # "" THEN <<<<tag, i, ai, j, bj>>>> ELSE <<>>)
             \o (IF size > 0 THEN <<<<"equal", ai, ai + size, bj, bj + size>>>> ELSE <<>>)
             \o OpcodesFrom(Tail(blocks), ai + size, bj + size)

get_opcodes(a, b) == OpcodesFrom(get_matching_blocks(a, b), 0, 0)

RECURSIVE SumSizes(_)
SumSizes(blocks) ==
    IF blocks = <<>> THEN 0 ELSE Head(blocks)[3] + SumSizes(Tail(blocks))

\* ratio() without the guard on an empty pair: 0 instead of 1.0.
ratio_EmptyIsZero(a, b) ==
    LET matches == SumSizes(get_matching_blocks(a, b))
        length  == Len(a) + Len(b)
    IN  IF length > 0 THEN [num |-> 2 * matches, den |-> length]
        ELSE [num |-> 0, den |-> 1]

\* ratio(): 2.0*matches/length, and 1.0 when both sequences are empty.
ratio(a, b) ==
    LET matches == SumSizes(get_matching_blocks(a, b))
        length  == Len(a) + Len(b)
    IN  IF length > 0 THEN [num |-> 2 * matches, den |-> length]
        ELSE [num |-> 1, den |-> 1]

(***************************************************************************)
(* compare_ipa_transcriptions(produced_ipa, expected_ipa)                  *)
(***************************************************************************)
\* The loop of lines 107-114 with position taken from the produced side (j1).
RECURSIVE DiffsOf_PositionInProduced(_, _, _)
DiffsOf_PositionInProduced(ops, expected, produced) ==
    IF ops = <<>> THEN <<>>
    ELSE LET op == Head(ops)
         IN  (IF op[1] # "equal"
              THEN <<[type     |-> op[1],
                      expected |-> SubSeq(expected, op[2] + 1, op[3]),
                      produced |-> SubSeq(produced, op[4] + 1, op[5]),
                      position |-> op[4]]>>
              ELSE <<>>)
             \o DiffsOf_PositionInProduced(Tail(ops), expected, produced)

\* The loop of lines 107-114 with position taken at the end of the span (i2).
RECURSIVE DiffsOf_PositionAtEnd(_, _, _)
DiffsOf_PositionAtEnd(ops, expected, produced) ==
    IF ops = <<>> THEN <<>>
    ELSE LET op == Head(ops)
         IN  (IF op[1] # "equal"
              THEN <<[type     |-> op[1],
                      expected |-> SubSeq(expected, op[2] + 1, op[3]),
                      produced |-> SubSeq(produced, op[4] + 1, op[5]),
                      position |-> op[3]]>>
              ELSE <<>>)
             \o DiffsOf_PositionAtEnd(Tail(ops), expected, produced)

\* The loop of lines 107-114: every opcode but "equal" becomes a difference.
RECURSIVE DiffsOf(_, _, _)
DiffsOf(ops, expected, produced) ==
    IF ops = <<>> THEN <<>>
    ELSE LET op == Head(ops)
         IN  (IF op[1] # "equal"
              THEN <<[type     |-> op[1],
                      expected |-> SubSeq(expected, op[2] + 1, op[3]),
                      produced |-> SubSeq(produced, op[4] + 1, op[5]),
                      position |-> op[2]]>>
              ELSE <<>>)
             \o DiffsOf(Tail(ops), expected, produced)

\* compare_ipa_transcriptions with the expected string left unstripped.
compare_ipa_transcriptions_ExpectedUnstripped(p_ipa, e_ipa) ==
    LET produced == strip(p_ipa)
        expected == e_ipa
    IN  [differences |-> DiffsOf(get_opcodes(expected, produced), expected, produced),
         similarity  |-> ratio(expected, produced)]

compare_ipa_transcriptions(p_ipa, e_ipa) ==
    LET produced == strip(p_ipa)
        expected == strip(e_ipa)
    IN  [differences |-> DiffsOf(get_opcodes(expected, produced), expected, produced),
         similarity  |-> ratio(expected, produced)]

(***************************************************************************)
(* The rule table (a pandas DataFrame): a sequence of rows.  The display   *)
(* columns are opaque text; row k of condition c carries <<column, c, k>>. *)
(***************************************************************************)
Row(c, k) ==
    [Condition        |-> c,
     Rule_mapping     |-> <<"Rule mapping (example)", c, k>>,
     Clinical_notes   |-> <<"Clinical notes", c, k>>,
     Age_of_concern   |-> <<"Age_of_concern", c, k>>,
     Confidence_notes |-> <<"Confidence_notes", c, k>>]

\* The fallback table of load_speech_rules.
FallbackRules == <<Row("Articulation Disorder", 1), Row("Phonological Disorder", 1)>>

\* speech_rules[speech_rules['Condition'] == name], with every row kept.
Lookup_Unfiltered(rules, name) == rules

\* speech_rules[speech_rules['Condition'] == name]: the rows of that condition.
Lookup(rules, name) == SelectSeq(rules, LAMBDA r : r.Condition = name)

\* "x in [...]" read as a test of the first symbol of x only.
InList_FirstSymbol(x, S) == x # <<>> /\ <<x[1]>> \in S

\* "x in [...]" on a Python list of one-symbol strings: x is one of them.
InList(x, S) == x \in S

(***************************************************************************)
(* identify_patterns(differences, speech_rules)                            *)
(***************************************************************************)
\* The dict appended at a match: nothing when the rule is empty.
Emit(rule, cond, patt, sev) ==
    IF rule = <<>> THEN <<>>
    ELSE <<[condition      |-> cond,
            pattern        |-> patt,
            example        |-> rule[1].Rule_mapping,
            clinical_notes |-> rule[1].Clinical_notes,
            age_concern    |-> rule[1].Age_of_concern,
            severity       |-> sev,
            confidence     |-> rule[1].Confidence_notes]>>

Gliding(e, p) ==
    \/ InList(e, {<<"r">>, <<"turned_r">>}) /\ p = <<"w">>
    \/ e = <<"l">> /\ InList(p, {<<"w">>, <<"j">>})

Stopping(e, p) ==
    /\ InList(e, {<<"s">>, <<"z">>, <<"f">>, <<"v">>, <<"theta">>, <<"eth">>, <<"esh">>, <<"ezh">>})
    /\ InList(p, {<<"t">>, <<"d">>, <<"p">>, <<"b">>})

Fronting(e, p) ==
    /\ InList(e, {<<"k">>, <<"g">>, <<"eng">>})
    /\ InList(p, {<<"t">>, <<"d">>, <<"n">>})

Backing(e, p) ==
    /\ InList(e, {<<"t">>, <<"d">>, <<"s">>})
    /\ InList(p, {<<"k">>, <<"g">>})

Labialization(e, p) ==
    /\ InList(e, {<<"s">>, <<"z">>, <<"t">>, <<"d">>})
    /\ InList(p, {<<"f">>, <<"v">>, <<"p">>, <<"b">>})

Voiceless == {<<"p">>, <<"t">>, <<"k">>, <<"f">>, <<"s">>, <<"theta">>, <<"esh">>}
Voiced == {<<"b">>, <<"d">>, <<"g">>, <<"v">>, <<"z">>, <<"eth">>, <<"ezh">>}

Voicing(e, p) ==
    \/ InList(e, Voiceless) /\ InList(p, Voiced)
    \/ InList(e, Voiced) /\ InList(p, Voiceless)

\* f'{expected}->{produced}' and its variants, kept as the tuple of their parts.
Arrow(e, p) == <<e, "->", p>>
ArrowStop(e, p) == <<e, "->", p, " (fricative to stop)">>
Omission(e) == <<"Omission of /", e, "/">>

\* The chain with every "elif" written "if": each matching predicate emits.
ReplacePattern_NoElif(diff, rules) ==
    LET e == diff.expected
        p == diff.produced
    IN  (IF Gliding(e, p) THEN Emit(Lookup(rules, "Gliding"), "Gliding", Arrow(e, p), "Moderate") ELSE <<>>)
        \o (IF Stopping(e, p) THEN Emit(Lookup(rules, "Stopping"), "Stopping", ArrowStop(e, p), "Moderate") ELSE <<>>)
        \o (IF Fronting(e, p) THEN Emit(Lookup(rules, "Fronting (Velar Fronting)"), "Fronting (Velar Fronting)", Arrow(e, p), "Moderate") ELSE <<>>)
        \o (IF Backing(e, p) THEN Emit(Lookup(rules, "Backing"), "Backing", Arrow(e, p), "Concerning") ELSE <<>>)
        \o (IF Labialization(e, p) THEN Emit(Lookup(rules, "Labialization"), "Labialization", Arrow(e, p), "Mild-Moderate") ELSE <<>>)
        \o (IF Voicing(e, p) THEN Emit(Lookup(rules, "Voicing (Devoicing/Voicing Errors)"), "Voicing Error", Arrow(e, p), "Mild") ELSE <<>>)

\* The chain with the rule test folded into each condition ("elif pred and
\* not rule.empty"): a match without a rule falls through to the next predicate.
ReplacePattern_FallThrough(diff, rules) ==
    LET e == diff.expected
        p == diff.produced
        has(name) == Lookup(rules, name) # <<>>
    IN  IF Gliding(e, p) /\ has("Gliding")
        THEN Emit(Lookup(rules, "Gliding"), "Gliding", Arrow(e, p), "Moderate")
        ELSE IF Stopping(e, p) /\ has("Stopping")
        THEN Emit(Lookup(rules, "Stopping"), "Stopping", ArrowStop(e, p), "Moderate")
        ELSE IF Fronting(e, p) /\ has("Fronting (Velar Fronting)")
        THEN Emit(Lookup(rules, "Fronting (Velar Fronting)"), "Fronting (Velar Fronting)", Arrow(e, p), "Moderate")
        ELSE IF Backing(e, p) /\ has("Backing")
        THEN Emit(Lookup(rules, "Backing"), "Backing", Arrow(e, p), "Concerning")
        ELSE IF Labialization(e, p) /\ has("Labialization")
        THEN Emit(Lookup(rules, "Labialization"), "Labialization", Arrow(e, p), "Mild-Moderate")
        ELSE IF Voicing(e, p) /\ has("Voicing (Devoicing/Voicing Errors)")
        THEN Emit(Lookup(rules, "Voicing (Devoicing/Voicing Errors)"), "Voicing Error", Arrow(e, p), "Mild")
        ELSE <<>>

\* The if/elif chain of lines 133-215 for one replace difference.
ReplacePattern(diff, rules) ==
    LET e == diff.expected
        p == diff.produced
    IN  IF Gliding(e, p)
        THEN Emit(Lookup(rules, "Gliding"), "Gliding", Arrow(e, p), "Moderate")
        ELSE IF Stopping(e, p)
        THEN Emit(Lookup(rules, "Stopping"), "Stopping", ArrowStop(e, p), "Moderate")
        ELSE IF Fronting(e, p)
        THEN Emit(Lookup(rules, "Fronting (Velar Fronting)"), "Fronting (Velar Fronting)", Arrow(e, p), "Moderate")
        ELSE IF Backing(e, p)
        THEN Emit(Lookup(rules, "Backing"), "Backing", Arrow(e, p), "Concerning")
        ELSE IF Labialization(e, p)
        THEN Emit(Lookup(rules, "Labialization"), "Labialization", Arrow(e, p), "Mild-Moderate")
        ELSE IF Voicing(e, p)
        THEN Emit(Lookup(rules, "Voicing (Devoicing/Voicing Errors)"), "Voicing Error", Arrow(e, p), "Mild")
        ELSE <<>>

\* The first loop (lines 125-215): the replace differences, in order.
RECURSIVE ReplaceLoop(_, _)
ReplaceLoop(diffs, rules) ==
    IF diffs = <<>> THEN <<>>
    ELSE (IF Head(diffs).type = "replace" THEN ReplacePattern(Head(diffs), rules) ELSE <<>>)
         \o ReplaceLoop(Tail(diffs), rules)

\* The second loop without its break: every deletion adds a pattern.
RECURSIVE DeleteLoop_NoBreak(_, _)
DeleteLoop_NoBreak(diffs, rules) ==
    IF diffs = <<>> THEN <<>>
    ELSE LET diff == Head(diffs)
         IN  (IF diff.type = "delete" /\ diff.expected # <<>>
              THEN Emit(Lookup(rules, "Final Consonant Deletion"), "Final Consonant Deletion",
                        Omission(diff.expected), "Moderate")
              ELSE <<>>)
             \o DeleteLoop_NoBreak(Tail(diffs), rules)

\* The second loop (lines 218-231): it breaks at the first pattern it adds.
RECURSIVE DeleteLoop(_, _)
DeleteLoop(diffs, rules) ==
    IF diffs = <<>> THEN <<>>
    ELSE LET diff == Head(diffs)
             rule == Lookup(rules, "Final Consonant Deletion")
         IN  IF diff.type = "delete" /\ diff.expected # <<>> /\ rule # <<>>
             THEN Emit(rule, "Final Consonant Deletion", Omission(diff.expected), "Moderate")
             ELSE DeleteLoop(Tail(diffs), rules)

identify_patterns(diffs, rules) == ReplaceLoop(diffs, rules) \o DeleteLoop(diffs, rules)

(***************************************************************************)
(* calculate_confidence_level(similarity_score, config).  A threshold is a *)
(* fraction like a similarity: 0.85 is 85/100.                             *)
(***************************************************************************)
Frac(n, d) == [num |-> n, den |-> d]

GE(s, t) == s.num * t.den >= t.num * s.den

GT(s, t) == s.num * t.den > t.num * s.den

load_sensitivity_config ==
    [high_confidence     |-> Frac(85, 100),
     moderate_confidence |-> Frac(65, 100),
     low_confidence      |-> Frac(45, 100)]

\* The cutoffs read as strict: a score on a threshold falls to the tier below.
calculate_confidence_level_Strict(similarity_score, cfg) ==
    IF GT(similarity_score, cfg.high_confidence) THEN <<"High Confidence", "success">>
    ELSE IF GT(similarity_score, cfg.moderate_confidence) THEN <<"Moderate Confidence", "warning">>
    ELSE IF GT(similarity_score, cfg.low_confidence) THEN <<"Low Confidence", "error">>
    ELSE <<"Very Low Confidence", "error">>

calculate_confidence_level(similarity_score, cfg) ==
    IF GE(similarity_score, cfg.high_confidence) THEN <<"High Confidence", "success">>
    ELSE IF GE(similarity_score, cfg.moderate_confidence) THEN <<"Moderate Confidence", "warning">>
    ELSE IF GE(similarity_score, cfg.low_confidence) THEN <<"Low Confidence", "error">>
    ELSE <<"Very Low Confidence", "error">>

(***************************************************************************)
(* simulate_audio_to_ipa(audio_file, reference_phrase): up to three random *)
(* positions get their clinical substitution; the result is the set of     *)
(* strings the random draws can produce.                                   *)
(***************************************************************************)
MaxErrors == 3

common_substitutions ==
    [c \in {"r", "turned_r", "l", "theta", "eth", "s", "esh", "k", "g", "t"} |->
        CASE c = "r" -> "w"
          [] c = "turned_r" -> "w"
          [] c = "l" -> "w"
          [] c = "theta" -> "f"
          [] c = "eth" -> "d"
          [] c = "s" -> "t"
          [] c = "esh" -> "t"
          [] c = "k" -> "t"
          [] c = "g" -> "d"
          [] c = "t" -> "k"]

\* One pass of the loop of lines 88-93 with the index drawn as idx (1-based).
SubstituteAt(ipa_chars, idx) ==
    IF ipa_chars[idx] \in DOMAIN common_substitutions
    THEN [ipa_chars EXCEPT ![idx] = common_substitutions[ipa_chars[idx]]]
    ELSE ipa_chars

\* The outcomes of num_errors passes.
RECURSIVE ErrorsApplied(_, _)
ErrorsApplied(ipa_chars, num_errors) ==
    IF num_errors = 0 \/ ipa_chars = <<>> THEN {ipa_chars}
    ELSE UNION {ErrorsApplied(SubstituteAt(ipa_chars, idx), num_errors - 1) :
                    idx \in 1 .. Len(ipa_chars)}

simulate_audio_to_ipa(reference_phrase) ==
    LET clean_ipa == strip(reference_phrase.expected_IPA)
    IN  {<<"/">> \o c \o <<"/">> :
            c \in UNION {ErrorsApplied(clean_ipa, n) : n \in 0 .. MaxErrors}}

(***************************************************************************)
(* The alignment on its own: the inputs are drawn, then the call is made.  *)
(***************************************************************************)
InitAlign ==
    /\ pc = "compare"
    /\ produced_ipa \in IPAStrings
    /\ expected_ipa \in IPAStrings
    /\ differences = <<>>
    /\ similarity = NoScore
    /\ speech_rules = <<>>
    /\ identified_patterns = <<>>
    /\ config = load_sensitivity_config
    /\ confidence = NoConfidence
    /\ uploaded_file = FALSE
    /\ analysis_complete = FALSE
    /\ analysis_results = NoResults

Compare ==
    /\ pc = "compare"
    /\ LET r == compare_ipa_transcriptions(produced_ipa, expected_ipa)
       IN  /\ differences' = r.differences
           /\ similarity' = r.similarity
    /\ pc' = "compared"
    /\ UNCHANGED <<produced_ipa, expected_ipa, speech_rules, identified_patterns,
                   config, confidence, uploaded_file, analysis_complete, analysis_results>>

NextAlign == Compare

SpecAlign == InitAlign /\ [][NextAlign]_vars

(***************************************************************************)
(* Claims about the alignment (checked under SpecAlign).                   *)
(***************************************************************************)
IsOne(s) == s.num = s.den
IsZero(s) == s.num = 0
SimEq(s, t) == s.num * t.den = t.num * s.den

\* The similarity of the call with the two strings exchanged.
SwappedSimilarity == compare_ipa_transcriptions(expected_ipa, produced_ipa).similarity

\* C7 (as stated): the similarity with A as expected and B as produced equals
\* the similarity with B as expected and A as produced.
C7_SimilaritySymmetric ==
    pc = "compared" => SimEq(similarity, SwappedSimilarity)

\* C7 (amended): exchanging expected and produced keeps the similarity at its
\* two extremes: it is 1.0 one way exactly when it is 1.0 the other way, and
\* 0.0 one way exactly when it is 0.0 the other way.
C7_SimilaritySymmetricAtExtremes ==
    pc = "compared" =>
        /\ IsOne(similarity) <=> IsOne(SwappedSimilarity)
        /\ IsZero(similarity) <=> IsZero(SwappedSimilarity)

C7_Witness ==
    /\ pc = "compared"
    /\ strip(expected_ipa) # <<>>
    /\ strip(produced_ipa) # <<>>
    /\ Len(strip(expected_ipa)) # Len(strip(produced_ipa))
    /\ IsZero(similarity)

\* C8: with the same string as expected and as produced (the empty string
\* included) the similarity is 1.0 and the list of differences is empty.
C8_IdenticalStrings ==
    (pc = "compared" /\ produced_ipa = expected_ipa) =>
        (IsOne(similarity) /\ differences = <<>>)

C8_Witness ==
    /\ pc = "compared"
    /\ produced_ipa = expected_ipa
    /\ Len(strip(expected_ipa)) >= 2
    /\ IsOne(similarity)

\* The walk of C9: acc is <<expected side, produced side, cursor>>.
RECURSIVE Walk(_, _, _)
Walk(diffs, expected, acc) ==
    IF diffs = <<>>
    THEN LET tail == SubSeq(expected, acc[3] + 1, Len(expected))
         IN  <<acc[1] \o tail, acc[2] \o tail>>
    ELSE LET d   == Head(diffs)
             run == SubSeq(expected, acc[3] + 1, d.position)
         IN  Walk(Tail(diffs), expected,
                  <<acc[1] \o run \o d.expected,
                    acc[2] \o run \o d.produced,
                    d.position + Len(d.expected)>>)

LeftToRight(diffs) ==
    \A i \in 1 .. Len(diffs) - 1 :
        /\ diffs[i].position < diffs[i + 1].position
        /\ diffs[i].position + Len(diffs[i].expected) <= diffs[i + 1].position

\* C9: the differences are in strictly left-to-right, non-overlapping order,
\* and walking them (equal run, then the spans, then the trailing run)
\* rebuilds the stripped expected string and the stripped produced string.
C9_RoundTrip ==
    pc = "compared" =>
        /\ LeftToRight(differences)
        /\ Walk(differences, strip(expected_ipa), <<<<>>, <<>>, 0>>)
              = <<strip(expected_ipa), strip(produced_ipa)>>

C9_Witness ==
    /\ pc = "compared"
    /\ Len(differences) >= 2
    /\ differences[1].type # differences[2].type

\* The indices (1-based) at which two strings of one length differ.
Changed(e, p) == {i \in 1 .. Len(e) : e[i] # p[i]}

\* produced is expected with exactly one symbol changed.
OneSubstitution(e, p) == Len(e) = Len(p) /\ Cardinality(Changed(e, p)) = 1

\* The single difference C11 expects: a Replace of the changed symbol, at its
\* 0-based index.
TheReplace(e, p) ==
    LET i == CHOOSE i \in Changed(e, p) : TRUE
    IN  <<[type |-> "replace", expected |-> <<e[i]>>, produced |-> <<p[i]>>,
           position |-> i - 1]>>

Occurs(x, s) == \E i \in 1 .. Len(s) : s[i] = x

\* The old symbol is gone from produced and the new symbol is new to expected.
FreshSubstitution(e, p) ==
    LET i == CHOOSE i \in Changed(e, p) : TRUE
    IN  ~Occurs(e[i], p) /\ ~Occurs(p[i], e)

LookupKeys ==
    {"Gliding", "Stopping", "Fronting (Velar Fronting)", "Backing", "Labialization",
     "Voicing (Devoicing/Voicing Errors)", "Final Consonant Deletion"}

FullRules ==
    <<Row("Gliding", 1), Row("Stopping", 1), Row("Fronting (Velar Fronting)", 1),
      Row("Backing", 1), Row("Labialization", 1),
      Row("Voicing (Devoicing/Voicing Errors)", 1), Row("Final Consonant Deletion", 1)>>

TableOf(S) == SelectSeq(FullRules, LAMBDA r : r.Condition \in S)

RuleTables ==
    {TableOf(LookupKeys \ M) : M \in {X \in SUBSET LookupKeys : Cardinality(X) <= MaxMissing}}
    \cup {FallbackRules,
          <<>>,
          <<Row("Stopping", 2)>> \o FullRules \o <<Row("Gliding", 2)>>,
          Append(TableOf(LookupKeys \ {"Voicing (Devoicing/Voicing Errors)"}),
                 Row("Voicing Error", 1))}

\* Every symbol a predicate names, and a vowel none of them names.
ClassifierSymbols ==
    {"r", "turned_r", "l", "w", "j", "s", "z", "f", "v", "theta", "eth", "esh", "ezh",
     "t", "d", "p", "b", "k", "g", "eng", "n", "ae"}

\* <<type, expected, produced>>: the shapes the longer lists are built from.
CoreShapes ==
    {<<"replace", <<"s">>, <<"p">>>>,
     <<"replace", <<"k">>, <<"d">>>>,
     <<"replace", <<"t">>, <<"b">>>>,
     <<"replace", <<"s", "t">>, <<"t">>>>,
     <<"replace", <<"s">>, <<"t", "d">>>>,
     <<"delete", <<"t">>, <<>>>>,
     <<"delete", <<"k">>, <<>>>>,
     <<"delete", <<>>, <<>>>>,
     <<"insert", <<>>, <<"t">>>>}

\* Every replacement of one symbol by another.
SingleShapes ==
    {<<"replace", <<x[1]>>, <<x[2]>>>> :
        x \in {y \in ClassifierSymbols \X ClassifierSymbols : y[1] # y[2]}}

DiffListOf(q) ==
    [i \in 1 .. Len(q) |->
        [type |-> q[i][1], expected |-> q[i][2], produced |-> q[i][3], position |-> i - 1]]

DiffLists ==
    {DiffListOf(q) : q \in SeqsUpTo(CoreShapes, MaxDiffs)}
    \cup {DiffListOf(<<x>>) : x \in SingleShapes}

InitClassify ==
    /\ pc = "identify"
    /\ produced_ipa = NoneString
    /\ expected_ipa = NoneString
    /\ differences \in DiffLists
    /\ similarity = NoScore
    /\ speech_rules \in RuleTables
    /\ identified_patterns = <<>>
    /\ config = load_sensitivity_config
    /\ confidence = NoConfidence
    /\ uploaded_file = FALSE
    /\ analysis_complete = FALSE
    /\ analysis_results = NoResults

Identify ==
    /\ pc = "identify"
    /\ identified_patterns' = identify_patterns(differences, speech_rules)
    /\ pc' = "identified"
    /\ UNCHANGED <<produced_ipa, expected_ipa, differences, similarity, speech_rules,
                   config, confidence, uploaded_file, analysis_complete, analysis_results>>

NextClassify == Identify

SpecClassify == InitClassify /\ [][NextClassify]_vars

(***************************************************************************)
(* Claims about the classifier (checked under SpecClassify).  The          *)
(* predicates below are those of the specification's list, in its order.   *)
(***************************************************************************)
One(S) == {<<x>> : x \in S}

ListedPredicate(k, e, p) ==
    CASE k = 1 -> \/ e \in One({"r", "turned_r"}) /\ p \in One({"w"})
                  \/ e \in One({"l"}) /\ p \in One({"w", "j"})
      [] k = 2 -> /\ e \in One({"s", "z", "f", "v", "theta", "eth", "esh", "ezh"})
                  /\ p \in One({"t", "d", "p", "b"})
      [] k = 3 -> e \in One({"k", "g", "eng"}) /\ p \in One({"t", "d", "n"})
      [] k = 4 -> e \in One({"t", "d", "s"}) /\ p \in One({"k", "g"})
      [] k = 5 -> e \in One({"s", "z", "t", "d"}) /\ p \in One({"f", "v", "p", "b"})
      [] k = 6 -> \/ /\ e \in One({"p", "t", "k", "f", "s", "theta", "esh"})
                     /\ p \in One({"b", "d", "g", "v", "z", "eth", "ezh"})
                  \/ /\ e \in One({"b", "d", "g", "v", "z", "eth", "ezh"})
                     /\ p \in One({"p", "t", "k", "f", "s", "theta", "esh"})

ListedCondition ==
    <<"Gliding", "Stopping", "Fronting (Velar Fronting)", "Backing", "Labialization",
      "Voicing Error">>

ListedSeverity ==
    <<"Moderate", "Moderate", "Moderate", "Concerning", "Mild-Moderate", "Mild">>

\* The condition name each predicate looks up in the rule table.
ListedKey ==
    <<"Gliding", "Stopping", "Fronting (Velar Fronting)", "Backing", "Labialization",
      "Voicing (Devoicing/Voicing Errors)">>

PredicateCount == Len(ListedCondition)

\* The first listed predicate matching (e, p); 0 when none matches.
FirstMatch(e, p) ==
    LET m == {k \in 1 .. PredicateCount : ListedPredicate(k, e, p)}
    IN  IF m = {} THEN 0 ELSE CHOOSE k \in m : \A j \in m : k <= j

HasRow(rules, name) == \E i \in 1 .. Len(rules) : rules[i].Condition = name

IsDeletionPattern(x) == x.condition = "Final Consonant Deletion"

OneSymbolReplace(d) == d.type = "replace" /\ Len(d.expected) = 1 /\ Len(d.produced) = 1

\* The patterns other than the deletion pattern, and the differences they can
\* come from, as indices.
ReplacePatternsAt(e, p) ==
    {j \in 1 .. Len(identified_patterns) :
        /\ ~IsDeletionPattern(identified_patterns[j])
        /\ identified_patterns[j].pattern[1] = e
        /\ identified_patterns[j].pattern[3] = p}

ReplaceDiffsAt(e, p) ==
    {i \in 1 .. Len(differences) :
        /\ differences[i].type = "replace"
        /\ differences[i].expected = e
        /\ differences[i].produced = p}

\* C1: a one-symbol Replace difference yields at most one pattern, and that
\* pattern is the one of the first predicate matching in the listed order, with
\* that predicate's severity; a later matching predicate adds nothing.
C1_FirstPredicateWins ==
    pc = "identified" =>
        \A i \in 1 .. Len(differences) :
            OneSymbolReplace(differences[i]) =>
                LET e == differences[i].expected
                    p == differences[i].produced
                    k == FirstMatch(e, p)
                IN  /\ Cardinality(ReplacePatternsAt(e, p)) <= Cardinality(ReplaceDiffsAt(e, p))
                    /\ \A j \in ReplacePatternsAt(e, p) :
                          /\ k # 0
                          /\ identified_patterns[j].condition = ListedCondition[k]
                          /\ identified_patterns[j].severity = ListedSeverity[k]

\* A difference that two predicates match, the first one having been reported.
C1_Witness ==
    /\ pc = "identified"
    /\ \E i \in 1 .. Len(differences) :
          /\ OneSymbolReplace(differences[i])
          /\ Cardinality({k \in 1 .. PredicateCount :
                ListedPredicate(k, differences[i].expected, differences[i].produced)}) >= 2
          /\ HasRow(speech_rules, "Labialization")
          /\ FirstMatch(differences[i].expected, differences[i].produced) = 2
          /\ ReplacePatternsAt(differences[i].expected, differences[i].produced) # {}

\* The replace-derived patterns the listed predicates call for, in the order
\* of the differences: <<condition, expected, produced>>.
RECURSIVE ListedReplacePatterns(_, _)
ListedReplacePatterns(diffs, rules) ==
    IF diffs = <<>> THEN <<>>
    ELSE LET d == Head(diffs)
             k == FirstMatch(d.expected, d.produced)
         IN  (IF d.type = "replace" /\ k # 0 /\ HasRow(rules, ListedKey[k])
              THEN <<<<ListedCondition[k], d.expected, d.produced>>>>
              ELSE <<>>)
             \o ListedReplacePatterns(Tail(diffs), rules)

DeletionIndices ==
    {j \in 1 .. Len(identified_patterns) : IsDeletionPattern(identified_patterns[j])}

NonEmptyDeletes ==
    {i \in 1 .. Len(differences) :
        differences[i].type = "delete" /\ differences[i].expected # <<>>}

\* C2: the returned list is the replace-derived patterns in the order of their
\* differences, followed by at most one 'Final Consonant Deletion' pattern,
\* which describes the first Delete difference with a non-empty expected span.
C2_OutputOrder ==
    pc = "identified" =>
        LET n == Len(identified_patterns)
            m == n - Cardinality(DeletionIndices)
        IN  /\ Cardinality(DeletionIndices) <= 1
            /\ DeletionIndices \subseteq {n}
            /\ \A j \in DeletionIndices :
                  /\ NonEmptyDeletes # {}
                  /\ \E i \in NonEmptyDeletes :
                        /\ \A h \in NonEmptyDeletes : i <= h
                        /\ identified_patterns[j].pattern = Omission(differences[i].expected)
            /\ [j \in 1 .. m |-> <<identified_patterns[j].condition,
                                   identified_patterns[j].pattern[1],
                                   identified_patterns[j].pattern[3]>>]
                 = ListedReplacePatterns(differences, speech_rules)

\* Two deletions of different spans after a reported replacement.
C2_Witness ==
    /\ pc = "identified"
    /\ Cardinality(NonEmptyDeletes) >= 2
    /\ \E i, h \in NonEmptyDeletes : differences[i].expected # differences[h].expected
    /\ Len(identified_patterns) >= 2
    /\ Cardinality(DeletionIndices) = 1

\* C3 (as stated): a condition name with no entry in the rule table is never
\* the condition field of an emitted pattern.
C3_AbsentConditionNeverEmitted ==
    pc = "identified" =>
        \A j \in 1 .. Len(identified_patterns) :
            HasRow(speech_rules, identified_patterns[j].condition)

\* The name looked up for a pattern of the given condition field.
KeyOfCondition(c) ==
    IF c = "Voicing Error" THEN "Voicing (Devoicing/Voicing Errors)" ELSE c

\* C3 (amended): a pattern is emitted only if the rule table has an entry for
\* the name its predicate looks up; that name is the pattern's condition field,
\* except that a 'Voicing Error' pattern is looked up as
\* 'Voicing (Devoicing/Voicing Errors)'.
C3_AbsentLookupKeyNeverEmitted ==
    pc = "identified" =>
        \A j \in 1 .. Len(identified_patterns) :
            HasRow(speech_rules, KeyOfCondition(identified_patterns[j].condition))

\* A matching difference whose looked-up name is absent from a non-empty table.
C3_Witness ==
    /\ pc = "identified"
    /\ speech_rules # <<>>
    /\ \E i \in 1 .. Len(differences) :
          /\ OneSymbolReplace(differences[i])
          /\ FirstMatch(differences[i].expected, differences[i].produced) = 6
          /\ HasRow(speech_rules, "Voicing Error")
          /\ ~HasRow(speech_rules, "Voicing (Devoicing/Voicing Errors)")
    /\ identified_patterns = <<>>

\* The differences whose first matching predicate has no rule to look up.
Unruled(d) ==
    /\ OneSymbolReplace(d)
    /\ FirstMatch(d.expected, d.produced) # 0
    /\ ~HasRow(speech_rules, ListedKey[FirstMatch(d.expected, d.produced)])

\* C4: a Replace difference whose matching predicate finds no rule yields no
\* pattern (no later predicate is tried for it), and the call completes with
\* the other differences classified as they are without it.
C4_MissingRuleSkipped ==
    pc = "identified" =>
        /\ \A i \in 1 .. Len(differences) :
              Unruled(differences[i]) =>
                  ReplacePatternsAt(differences[i].expected, differences[i].produced) = {}
        /\ identified_patterns
             = identify_patterns(SelectSeq(differences, LAMBDA d : ~Unruled(d)), speech_rules)

\* A difference two predicates match: the first has no rule, the second has one.
C4_Witness ==
    /\ pc = "identified"
    /\ identified_patterns # <<>>
    /\ \E i \in 1 .. Len(differences) :
          /\ Unruled(differences[i])
          /\ \E k \in 1 .. PredicateCount :
                /\ ListedPredicate(k, differences[i].expected, differences[i].produced)
                /\ HasRow(speech_rules, ListedKey[k])

\* The differences a pattern can come from.
Classifiable(d) ==
    \/ OneSymbolReplace(d)
    \/ d.type = "delete" /\ d.expected # <<>>

\* C5: only one-symbol Replace differences and Delete differences with a
\* non-empty expected span produce patterns: an Insert difference and a Replace
\* difference with a longer span add nothing, whatever the rule table holds.
C5_OnlyClassifiableDifferences ==
    pc = "identified" =>
        /\ \A j \in 1 .. Len(identified_patterns) :
              LET x == identified_patterns[j]
              IN  IF IsDeletionPattern(x)
                  THEN \E i \in NonEmptyDeletes : x.pattern = Omission(differences[i].expected)
                  ELSE \E i \in 1 .. Len(differences) :
                          /\ OneSymbolReplace(differences[i])
                          /\ x.pattern[1] = differences[i].expected
                          /\ x.pattern[3] = differences[i].produced
        /\ identified_patterns
             = identify_patterns(SelectSeq(differences, Classifiable), speech_rules)

\* An insertion and a two-symbol replacement next to a reported replacement,
\* every rule being present.
C5_Witness ==
    /\ pc = "identified"
    /\ speech_rules = FullRules
    /\ \E i \in 1 .. Len(differences) : differences[i].type = "insert"
    /\ \E i \in 1 .. Len(differences) :
          differences[i].type = "replace" /\ Len(differences[i].expected) > 1
    /\ Len(identified_patterns) = 1

\* C12: with the embedded fallback rule table, whose only conditions are
\* 'Articulation Disorder' and 'Phonological Disorder', identify_patterns ends
\* with an empty list for every list of differences, no name the classifier
\* looks up being a condition of that table.
C12_FallbackTableNoPatterns ==
    (pc = "identified" /\ speech_rules = FallbackRules) =>
        /\ identified_patterns = <<>>
        /\ {FallbackRules[i].Condition : i \in 1 .. Len(FallbackRules)}
               = {"Articulation Disorder", "Phonological Disorder"}
        /\ \A k \in LookupKeys : Lookup(FallbackRules, k) = <<>>

\* The fallback table met a substitution a predicate matches and a deletion.
C12_Witness ==
    /\ pc = "identified"
    /\ speech_rules = FallbackRules
    /\ \E i \in 1 .. Len(differences) :
          /\ OneSymbolReplace(differences[i])
          /\ FirstMatch(differences[i].expected, differences[i].produced) # 0
    /\ NonEmptyDeletes # {}
    /\ identified_patterns = <<>>

(***************************************************************************)
(* The scorer on its own: a score and three thresholds are drawn, then     *)
(* calculate_confidence_level is called.                                   *)
(***************************************************************************)
Scores ==
    {Frac(x[1], x[2]) : x \in {y \in (0 .. MaxDen) \X (1 .. MaxDen) : y[1] <= y[2]}}
    \cup {Frac(849999, 1000000)}

Thresholds == {Frac(0, 100), Frac(45, 100), Frac(65, 100), Frac(85, 100), Frac(100, 100)}

Configs ==
    [high_confidence : Thresholds, moderate_confidence : Thresholds, low_confidence : Thresholds]

InitConfidence ==
    /\ pc = "score"
    /\ produced_ipa = NoneString
    /\ expected_ipa = NoneString
    /\ differences = <<>>
    /\ similarity \in Scores
    /\ speech_rules = <<>>
    /\ identified_patterns = <<>>
    /\ config \in Configs
    /\ confidence = NoConfidence
    /\ uploaded_file = FALSE
    /\ analysis_complete = FALSE
    /\ analysis_results = NoResults

Score ==
    /\ pc = "score"
    /\ confidence' = calculate_confidence_level(similarity, config)
    /\ pc' = "scored"
    /\ UNCHANGED <<produced_ipa, expected_ipa, differences, similarity, speech_rules,
                   identified_patterns, config, uploaded_file, analysis_complete,
                   analysis_results>>

NextConfidence == Score

SpecConfidence == InitConfidence /\ [][NextConfidence]_vars

(***************************************************************************)
(* Claims about the scorer (checked under SpecConfidence).                 *)
(***************************************************************************)
Ordered(cfg) ==
    /\ GE(cfg.high_confidence, cfg.moderate_confidence)
    /\ GE(cfg.moderate_confidence, cfg.low_confidence)

\* C6: with thresholds high >= moderate >= low the score falls in exactly one
\* tier, each tier's lower bound being inclusive: [high, ..) is High Confidence,
\* [moderate, high) Moderate, [low, moderate) Low, below low Very Low; with the
\* defaults 0.85 is High Confidence and a score just below it is Moderate.
C6_ConfidenceTiers ==
    (pc = "scored" /\ Ordered(config)) =>
        LET s == similarity
            h == config.high_confidence
            m == config.moderate_confidence
            l == config.low_confidence
        IN  /\ GE(s, h) => confidence = <<"High Confidence", "success">>
            /\ (GE(s, m) /\ ~GE(s, h)) => confidence = <<"Moderate Confidence", "warning">>
            /\ (GE(s, l) /\ ~GE(s, m)) => confidence = <<"Low Confidence", "error">>
            /\ ~GE(s, l) => confidence = <<"Very Low Confidence", "error">>
            /\ (config = load_sensitivity_config /\ s = Frac(849999, 1000000))
                  => confidence = <<"Moderate Confidence", "warning">>
            /\ (config = load_sensitivity_config /\ s = Frac(17, 20))
                  => confidence = <<"High Confidence", "success">>

\* The score 0.85 itself under the default thresholds.
C6_Witness ==
    /\ pc = "scored"
    /\ config = load_sensitivity_config
    /\ similarity = Frac(17, 20)
    /\ confidence = <<"High Confidence", "success">>

(***************************************************************************)
(* The UI session: the session state of lines 311-315, the file uploader   *)
(* and the Run Analysis handler of lines 378-401.  The reference table has *)
(* a few short phrases, one with an empty IPA string and one with the IPA  *)
(* value missing (None), on which str.strip raises.                        *)
(***************************************************************************)
reference_df ==
    {[phrase |-> "cat", expected_IPA |-> <<"/", "k", "ae", "t", "/">>],
     [phrase |-> "sat", expected_IPA |-> <<"/", "s", "ae", "t", "/">>],
     [phrase |-> "the", expected_IPA |-> <<"/", "eth", "schwa", "/">>],
     [phrase |-> "she", expected_IPA |-> <<"/", "esh", "i", "/">>],
     [phrase |-> "empty", expected_IPA |-> <<"/", "/">>],
     [phrase |-> "missing", expected_IPA |-> NoneString]}

InitSession ==
    /\ pc = "idle"
    /\ produced_ipa = NoneString
    /\ expected_ipa = NoneString
    /\ differences = <<>>
    /\ similarity = NoScore
    /\ speech_rules \in {FallbackRules, FullRules}
    /\ identified_patterns = <<>>
    /\ config = load_sensitivity_config
    /\ confidence = NoConfidence
    /\ uploaded_file = FALSE
    /\ analysis_complete = FALSE
    /\ analysis_results = NoResults

\* The user puts a recording in the file uploader.
Upload ==
    /\ ~uploaded_file
    /\ uploaded_file' = TRUE
    /\ UNCHANGED <<pc, produced_ipa, expected_ipa, differences, similarity, speech_rules,
                   identified_patterns, config, confidence, analysis_complete,
                   analysis_results>>

\* The user clears the file uploader.
RemoveFile ==
    /\ uploaded_file
    /\ uploaded_file' = FALSE
    /\ UNCHANGED <<pc, produced_ipa, expected_ipa, differences, similarity, speech_rules,
                   identified_patterns, config, confidence, analysis_complete,
                   analysis_results>>

\* The handler with the completion flag set on entry, before the analysis.
RunAnalysis_FlagSetOnEntry ==
    /\ uploaded_file
    /\ analysis_complete' = TRUE
    /\ \E selected_row \in reference_df :
          /\ expected_ipa' = selected_row.expected_IPA
          /\ IF selected_row.expected_IPA = NoneString
             THEN /\ pc' = "raised"
                  /\ produced_ipa' = NoneString
                  /\ differences' = <<>>
                  /\ similarity' = NoScore
                  /\ identified_patterns' = <<>>
                  /\ confidence' = NoConfidence
                  /\ UNCHANGED analysis_results
             ELSE \E produced \in simulate_audio_to_ipa(selected_row) :
                    LET r        == compare_ipa_transcriptions(produced, selected_row.expected_IPA)
                        patterns == identify_patterns(r.differences, speech_rules)
                        conf     == calculate_confidence_level(r.similarity, config)
                    IN  /\ produced_ipa' = produced
                        /\ differences' = r.differences
                        /\ similarity' = r.similarity
                        /\ identified_patterns' = patterns
                        /\ confidence' = conf
                        /\ analysis_results' =
                            <<[phrase          |-> selected_row.phrase,
                               expected_ipa    |-> selected_row.expected_IPA,
                               produced_ipa    |-> produced,
                               differences     |-> r.differences,
                               similarity      |-> r.similarity,
                               patterns        |-> patterns,
                               confidence      |-> conf[1],
                               confidence_type |-> conf[2]]>>
                        /\ pc' = "stored"
    /\ UNCHANGED <<speech_rules, config, uploaded_file>>

\* The Run Analysis button (enabled only with a recording) on the selected row.
RunAnalysis ==
    /\ uploaded_file
    /\ \E selected_row \in reference_df :
          /\ expected_ipa' = selected_row.expected_IPA
          /\ IF selected_row.expected_IPA = NoneString
             THEN \* reference_ipa.strip raises: the run ends before any store
                  /\ pc' = "raised"
                  /\ produced_ipa' = NoneString
                  /\ differences' = <<>>
                  /\ similarity' = NoScore
                  /\ identified_patterns' = <<>>
                  /\ confidence' = NoConfidence
                  /\ UNCHANGED <<analysis_complete, analysis_results>>
             ELSE \E produced \in simulate_audio_to_ipa(selected_row) :
                    LET r        == compare_ipa_transcriptions(produced, selected_row.expected_IPA)
                        patterns == identify_patterns(r.differences, speech_rules)
                        conf     == calculate_confidence_level(r.similarity, config)
                    IN  /\ produced_ipa' = produced
                        /\ differences' = r.differences
                        /\ similarity' = r.similarity
                        /\ identified_patterns' = patterns
                        /\ confidence' = conf
                        /\ analysis_results' =
                            <<[phrase          |-> selected_row.phrase,
                               expected_ipa    |-> selected_row.expected_IPA,
                               produced_ipa    |-> produced,
                               differences     |-> r.differences,
                               similarity      |-> r.similarity,
                               patterns        |-> patterns,
                               confidence      |-> conf[1],
                               confidence_type |-> conf[2]]>>
                        /\ analysis_complete' = TRUE
                        /\ pc' = "stored"
    /\ UNCHANGED <<speech_rules, config, uploaded_file>>

NextSession == Upload \/ RemoveFile \/ RunAnalysis

SpecSession == InitSession /\ [][NextSession]_vars

(***************************************************************************)
(* Claims about the handler (checked under SpecSession).  expected_ipa and *)
(* produced_ipa are the strings of the last run, pc its outcome.           *)
(***************************************************************************)
RunEnded == pc \in {"stored", "raised"}

EmptyOrMissing(x) == x = NoneString \/ strip(x) = <<>>

StoredByLastRun ==
    /\ analysis_results # NoResults
    /\ analysis_results[1].expected_ipa = expected_ipa
    /\ analysis_results[1].produced_ipa = produced_ipa

RecordOfLastRun ==
    [phrase          |-> (CHOOSE row \in reference_df : row.expected_IPA = expected_ipa).phrase,
     expected_ipa    |-> expected_ipa,
     produced_ipa    |-> produced_ipa,
     differences     |-> differences,
     similarity      |-> similarity,
     patterns        |-> identified_patterns,
     confidence      |-> confidence[1],
     confidence_type |-> confidence[2]]

ResultFields ==
    {"phrase", "expected_ipa", "produced_ipa", "differences", "similarity", "patterns",
     "confidence", "confidence_type"}

\* analysis_complete only with one complete record, which after a completed
\* run is the record of that run.
CompleteHasRecord ==
    /\ analysis_complete =>
          /\ Len(analysis_results) = 1
          /\ DOMAIN analysis_results[1] = ResultFields
    /\ pc = "stored" => (analysis_complete /\ analysis_results = <<RecordOfLastRun>>)
    /\ ~analysis_complete => analysis_results = NoResults

\* One step of the session: only a completed run writes the two session
\* variables, and the flag is never withdrawn.
SessionStep ==
    /\ analysis_complete => analysis_complete'
    /\ pc' # "stored" => UNCHANGED <<analysis_complete, analysis_results>>
    /\ pc' = "stored" => (analysis_complete' /\ analysis_results' = <<RecordOfLastRun'>>)

\* C13: in every reachable state of a session, analysis_complete is True only
\* if analysis_results holds one complete result record (the eight fields), and
\* that record is the one of the most recent Run Analysis that completed; a run
\* that raises part-way leaves both session variables unchanged, and
\* analysis_complete never returns to False.  (Upload and RemoveFile are the
\* reruns of the script that do not enter the handler.)
C13_CompleteOnlyWithLastRecord == [](CompleteHasRecord) /\ [][SessionStep]_vars

\* A run raised after an earlier run had completed: the older record is kept.
C13_Witness ==
    /\ pc = "raised"
    /\ analysis_complete
    /\ analysis_results # NoResults
    /\ analysis_results[1].expected_ipa # expected_ipa

====
